---------------------------- MODULE Spec2Model ----------------------------
(***************************************************************************)
(* SecureAPK: the static analysis pipeline (analysis/static_analyzer.py,   *)
(* analysis/utils.py, analysis/icon_utils.py) and the signal fusion of     *)
(* app.py.                                                                 *)
(*                                                                         *)
(* Three specifications share the variables below:                         *)
(*   Spec         one call of analyze_apk, statement group by statement    *)
(*                group, on an archive, two manifest backends and a trust  *)
(*                source chosen from finite pools;                         *)
(*   FuseSpec     one call of combine_ml_vt_mb on bounded inputs;          *)
(*   StringsSpec  one call of extract_all_strings, byte by byte.           *)
(* Floating point values are modelled by exact rationals [num, den].       *)
(* Strings whose characters the code inspects are sequences of one-        *)
(* character strings.                                                      *)
(***************************************************************************)
EXTENDS Integers, Sequences, FiniteSets, TLC

VARIABLES
    \* ---- combine_ml_vt_mb (app.py)
    f_pc,        \* "idle" | "call" | "done"
    f_args,      \* [ml_prob, vt_detections, vt_total, mb_detections]
    f_ret,       \* [final_score, decision] once returned
    \* ---- extract_all_strings (analysis/utils.py)
    s_pc,        \* "idle" | "loop" | "done"
    s_data,      \* the data argument (None or a byte sequence)
    s_min_len,   \* the min_len argument
    s_i,         \* number of bytes of the for loop already consumed
    s_acc,       \* acc
    s_out,       \* out
    \* ---- analyze_apk (analysis/static_analyzer.py)
    pc,          \* position in analyze_apk
    apk,         \* the file at apk_path
    ag_lib,      \* what the androguard library does on that file
    au_lib,      \* what the apkutils2 library does on that file
    meta,        \* meta
    dangerous,   \* dangerous, as a set
    classes,     \* classes
    entropy,     \* entropy
    icon_img,    \* icon_img
    icon_hash,   \* icon_hash
    trust_src,   \* the file at trusted_data_path, as read
    trusted,     \* trusted
    cert_match,  \* cert_match
    icon_sim,    \* icon_sim
    exc,         \* the exception analyze_apk ended with, "" for none
    result       \* the AnalysisResult returned, or None

fvars == <<f_pc, f_args, f_ret>>
svars == <<s_pc, s_data, s_min_len, s_i, s_acc, s_out>>
avars == <<pc, apk, ag_lib, au_lib, meta, dangerous, classes, entropy, icon_img,
           icon_hash, trust_src, trusted, cert_match, icon_sim, exc, result>>
vars == <<fvars, svars, avars>>

\* Python's None; a present optional value v is <<v>>.
None == <<>>
Some(v) == <<v>>
IsNone(o) == o = None
Val(o) == o[1]

\* Python's `a or b` on optional values whose present values are truthy.
Or(a, b) == IF IsNone(a) THEN b ELSE a

-----------------------------------------------------------------------------
(* Exact rationals standing for Python floats.                             *)

Rat(n, d) == [num |-> n, den |-> d]

RECURSIVE GCD(_, _)
GCD(a, b) == IF b = 0 THEN a ELSE GCD(b, a % b)

\* The same rational in lowest terms (den > 0, num >= 0).
Norm(r) == LET g == GCD(r.num, r.den) IN Rat(r.num \div g, r.den \div g)
RatAdd(a, b) == Norm(Rat(a.num * b.den + b.num * a.den, a.den * b.den))
RatMul(a, b) == Norm(Rat(a.num * b.num, a.den * b.den))
RatLe(a, b) == a.num * b.den <= b.num * a.den
RatLt(a, b) == a.num * b.den < b.num * a.den
RatEq(a, b) == a.num * b.den = b.num * a.den
RatMin(a, b) == IF RatLe(a, b) THEN a ELSE b
RatMax(a, b) == IF RatLe(b, a) THEN a ELSE b
Zero == Rat(0, 1)
One == Rat(1, 1)

-----------------------------------------------------------------------------
(* combine_ml_vt_mb                                                        *)

\* Bounds on the inputs drawn for combine_ml_vt_mb.
MaxDetections == 7
MaxTotal == 8
MaxSecondary == 2

\* ml_prob is drawn in hundredths: m stands for m/100.
MlProbs == 0..100

FuseInputs ==
    [ml_prob : MlProbs, vt_detections : 0..MaxDetections,
     vt_total : 0..MaxTotal, mb_detections : 0..MaxSecondary]

\* app.py:66
vt_score(vt_detections, vt_total) ==
    IF vt_total > 0 THEN Rat(vt_detections, vt_total) ELSE Zero

\* app.py:67
mb_score(mb_detections) == IF mb_detections > 0 THEN One ELSE Zero

\* Variant: final_score without the min of app.py:69.
final_score_unclamped(ml, vt_detections, vt_total, mb_detections) ==
    RatAdd(RatAdd(RatMul(Rat(7, 10), Rat(ml, 100)),
                  RatMul(Rat(15, 100), vt_score(vt_detections, vt_total))),
           RatMul(Rat(15, 100), mb_score(mb_detections)))

\* app.py:68-69; ml is ml_prob in hundredths.
final_score(ml, vt_detections, vt_total, mb_detections) ==
    LET raw == RatAdd(RatAdd(RatMul(Rat(7, 10), Rat(ml, 100)),
                             RatMul(Rat(15, 100), vt_score(vt_detections, vt_total))),
                      RatMul(Rat(15, 100), mb_score(mb_detections)))
    IN RatMin(raw, One)

\* Variant: decision with >= and <= for the comparisons of app.py:71-75.
decision_nonstrict(ml, vt_detections, mb_detections) ==
    IF vt_detections >= 5 \/ mb_detections > 0 THEN "Likely Malware (Confirmed)"
    ELSE IF vt_detections = 0 /\ mb_detections = 0 /\ ml >= 70
         THEN "Suspicious (New Malware?)"
    ELSE IF vt_detections = 0 /\ mb_detections = 0 /\ ml <= 30 THEN "Likely Safe"
    ELSE "Potentially Risky"

\* app.py:71-78; ml is ml_prob in hundredths, so 0.7 is 70 and 0.3 is 30.
decision(ml, vt_detections, mb_detections) ==
    IF vt_detections > 5 \/ mb_detections > 0 THEN "Likely Malware (Confirmed)"
    ELSE IF vt_detections = 0 /\ mb_detections = 0 /\ ml > 70
         THEN "Suspicious (New Malware?)"
    ELSE IF vt_detections = 0 /\ mb_detections = 0 /\ ml < 30 THEN "Likely Safe"
    ELSE "Potentially Risky"

FuseIdle == f_pc = "idle" /\ f_args = None /\ f_ret = None

FuseInit == f_pc = "call" /\ f_args \in FuseInputs /\ f_ret = None

\* app.py:65-79
combine_ml_vt_mb ==
    /\ f_pc = "call"
    /\ f_ret' = [final_score |-> final_score(f_args.ml_prob, f_args.vt_detections,
                                             f_args.vt_total, f_args.mb_detections),
                 decision |-> decision(f_args.ml_prob, f_args.vt_detections,
                                       f_args.mb_detections)]
    /\ f_pc' = "done"
    /\ UNCHANGED <<f_args, svars, avars>>

-----------------------------------------------------------------------------
(* extract_all_strings                                                     *)

\* Bounds on the buffers and min_len values drawn for extract_all_strings.
MaxBufLen == 4
MaxMinLen == 3

\* utils.py:47, the default of min_len.
DefaultMinLen == 5

\* Byte values the buffers are built from: both edges of the printable range,
\* a byte inside it and a control byte.
ByteSamples == {0, 31, 32, 65, 126, 127}

\* b"AB\x00CDEFG\x01"
ExampleBuf == <<65, 66, 0, 67, 68, 69, 70, 71, 1>>

Buffers ==
    UNION {[1..n -> ByteSamples] : n \in 0..MaxBufLen} \cup {ExampleBuf}

\* chr(b) for the printable bytes the buffers hold.
chr(b) ==
    CASE b = 32 -> " " [] b = 65 -> "A" [] b = 66 -> "B" [] b = 67 -> "C"
      [] b = 68 -> "D" [] b = 69 -> "E" [] b = 70 -> "F" [] b = 71 -> "G"
      [] b = 126 -> "~"

\* utils.py:49, `data or b""`.
data_or_empty(data) == IF data = None THEN <<>> ELSE data[1]

\* Variant: flush with > for the >= of utils.py:53.
flush_strict(out, acc, min_len) ==
    IF Len(acc) > min_len THEN Append(out, acc) ELSE out

\* utils.py:53-54 and 56-57: a run is emitted when it is long enough.
flush(out, acc, min_len) ==
    IF Len(acc) >= min_len THEN Append(out, acc) ELSE out

StringsIdle ==
    /\ s_pc = "idle" /\ s_data = None /\ s_min_len = 0
    /\ s_i = 0 /\ s_acc = <<>> /\ s_out = <<>>

\* utils.py:47-48
StringsInit ==
    /\ s_pc = "loop"
    /\ s_data \in {Some(b) : b \in Buffers} \cup {None}
    /\ s_min_len \in (1..MaxMinLen) \cup {DefaultMinLen}
    /\ s_i = 0 /\ s_acc = <<>> /\ s_out = <<>>

\* utils.py:49-51, an iteration on a printable byte.
scan_printable ==
    /\ s_pc = "loop"
    /\ s_i < Len(data_or_empty(s_data))
    /\ LET b == data_or_empty(s_data)[s_i + 1] IN
        /\ 32 <= b /\ b <= 126
        /\ s_acc' = Append(s_acc, chr(b))
    /\ s_i' = s_i + 1
    /\ UNCHANGED <<s_pc, s_data, s_min_len, s_out, fvars, avars>>

\* utils.py:49-50 and 52-55, an iteration on any other byte.
scan_other ==
    /\ s_pc = "loop"
    /\ s_i < Len(data_or_empty(s_data))
    /\ LET b == data_or_empty(s_data)[s_i + 1] IN ~(32 <= b /\ b <= 126)
    /\ s_out' = flush(s_out, s_acc, s_min_len)
    /\ s_acc' = <<>>
    /\ s_i' = s_i + 1
    /\ UNCHANGED <<s_pc, s_data, s_min_len, fvars, avars>>

\* utils.py:56-58, after the loop.
scan_end ==
    /\ s_pc = "loop"
    /\ s_i = Len(data_or_empty(s_data))
    /\ s_out' = flush(s_out, s_acc, s_min_len)
    /\ s_pc' = "done"
    /\ UNCHANGED <<s_data, s_min_len, s_i, s_acc, fvars, avars>>

-----------------------------------------------------------------------------
(* Values shared by the analysis: strings, archives, decoders.             *)

UpperChars == <<"A", "B", "C", "D", "E", "F", "G", "H", "I", "J", "K", "L", "M",
               "N", "O", "P", "Q", "R", "S", "T", "U", "V", "W", "X", "Y", "Z">>
LowerChars == <<"a", "b", "c", "d", "e", "f", "g", "h", "i", "j", "k", "l", "m",
               "n", "o", "p", "q", "r", "s", "t", "u", "v", "w", "x", "y", "z">>

\* str.lower() and str.upper(), character by character.
LowerMap == [c \in {UpperChars[i] : i \in 1..26} |->
                LowerChars[CHOOSE i \in 1..26 : UpperChars[i] = c]]
UpperMap == [c \in {LowerChars[i] : i \in 1..26} |->
                UpperChars[CHOOSE i \in 1..26 : LowerChars[i] = c]]
LowerChar(c) == IF c \in DOMAIN LowerMap THEN LowerMap[c] ELSE c
UpperChar(c) == IF c \in DOMAIN UpperMap THEN UpperMap[c] ELSE c
lower(s) == [i \in 1..Len(s) |-> LowerChar(s[i])]
upper(s) == [i \in 1..Len(s) |-> UpperChar(s[i])]

\* `sub in s`, s.startswith(p), s.endswith(p).
Contains(sub, s) ==
    \E i \in 0..(Len(s) - Len(sub)) : SubSeq(s, i + 1, i + Len(sub)) = sub
StartsWith(s, p) == Len(p) <= Len(s) /\ SubSeq(s, 1, Len(p)) = p
EndsWith(s, p) ==
    Len(p) <= Len(s) /\ SubSeq(s, Len(s) - Len(p) + 1, Len(s)) = p

\* Entry contents (byte strings) of the archives.
DexMixed == <<7, 9, 7>>
DexUniform == <<7, 7, 7>>
DexEmpty == <<>>
PngSmall == <<137, 80, 1>>
WebpBig == <<82, 73, 2>>
PngSame == <<137, 80, 3>>
PngOther == <<137, 80, 4>>
Corrupt == <<137, 80, 0>>
CertFile == <<48, 130, 5>>
\* Certificates (DER) androguard reports.
CertV1 == <<48, 130, 1>>
CertV2 == <<48, 130, 2>>
CertV3 == <<48, 130, 3>>

\* Archive entries: name and content.
Entry(n, d) == [name |-> n, data |-> d]
EntryPool ==
    { Entry(<<"c", "l", "a", "s", "s", "e", "s", ".", "d", "e", "x">>, DexMixed),
      Entry(<<"C", "l", "a", "s", "s", "e", "s", ".", "D", "E", "X">>, DexUniform),
      Entry(<<"x", "/", "c", "l", "a", "s", "s", "e", "s", ".", "d", "e", "x">>, DexEmpty),
      Entry(<<"r", "e", "s", "/", "m", "i", "p", "m", "a", "p", "/", "a", ".", "p", "n", "g">>, PngSmall),
      Entry(<<"r", "e", "s", "/", "d", "r", "a", "w", "a", "b", "l", "e", "/", "B", ".", "W", "E", "B", "P">>, WebpBig),
      Entry(<<"r", "e", "s", "/", "d", "r", "a", "w", "a", "b", "l", "e", "/", "e", ".", "p", "n", "g">>, PngSame),
      Entry(<<"r", "e", "s", "/", "m", "i", "p", "m", "a", "p", "/", "c", ".", "p", "n", "g">>, Corrupt),
      Entry(<<"a", "s", "s", "e", "t", "s", "/", "d", ".", "p", "n", "g">>, PngOther),
      Entry(<<"M", "E", "T", "A", "-", "I", "N", "F", "/", "A", ".", "r", "s", "a">>, CertFile) }

\* Bound on the number of entries of an archive.
MaxEntries == 2

\* The files analyze_apk is given: a file that is no zip archive, or an
\* archive of at most MaxEntries distinct entries of the pool, in any order.
Archives ==
    {[readable |-> FALSE, entries |-> <<>>]} \cup
    {[readable |-> TRUE, entries |-> es] :
        es \in {s \in UNION {[1..n -> EntryPool] : n \in 0..MaxEntries} :
                    \A i, j \in 1..Len(s) : i # j => s[i] # s[j]}}

\* ZipFile.read(name) of a readable archive.
zread(z, n) ==
    z.entries[CHOOSE i \in 1..Len(z.entries) : z.entries[i].name = n].data

\* PIL's Image.open on a byte string: the image (size, and the perceptual
\* hash imagehash.phash gives it), or None where Image.open raises.
Image_open(data) ==
    CASE data = PngSmall -> Some([size |-> <<2, 2>>, phash |-> <<"0", "0", "f", "f">>])
      [] data = WebpBig -> Some([size |-> <<4, 4>>, phash |-> <<"0", "f", "0", "f">>])
      [] data = PngSame -> Some([size |-> <<8, 2>>, phash |-> <<"f", "f", "f", "f">>])
      [] data = PngOther -> Some([size |-> <<3, 3>>, phash |-> <<"1", "2", "3", "4">>])
      [] OTHER -> <<>>

\* hashlib.sha256(data).hexdigest(): lowercase hex, here two digits.
sha256_hexdigest(data) ==
    CASE data = CertV1 -> <<"a", "1">>
      [] data = CertV2 -> <<"b", "2">>
      [] data = CertV3 -> <<"c", "3">>
      [] data = CertFile -> <<"d", "4">>
      [] OTHER -> <<"0", "0">>

-----------------------------------------------------------------------------
(* The manifest backends (static_analyzer.py:62-134).                      *)

\* What the androguard library does on the file: AG_APK is None
\* ("unavailable"), a call on it raises ("raises"), or the APK object's
\* accessors return the values below ("apk").
AgLib(k, pkg, name, vname, vcode, perms, v1, v2, v3, certs_raise, icon, icon_raises) ==
    [kind |-> k, package |-> pkg, app_name |-> name, version_name |-> vname,
     version_code |-> vcode, permissions |-> perms, certs_v1 |-> v1,
     certs_v2 |-> v2, certs_v3 |-> v3, certs_raise |-> certs_raise,
     app_icon |-> icon, app_icon_raises |-> icon_raises]

AgNoApk(k) ==
    AgLib(k, None, None, None, None, None, <<>>, <<>>, <<>>, FALSE, None, FALSE)

AgLibs ==
    { AgNoApk("unavailable"), AgNoApk("raises"),
      AgLib("apk", Some("com.bank.app"), Some("Bank"), Some("1.0"), Some("7"),
            Some(<<"android.permission.READ_SMS", "android.permission.INTERNET">>),
            <<CertV1>>, <<CertV2, CertV1>>, <<CertV3>>, FALSE,
            Some(<<"a", "s", "s", "e", "t", "s", "/", "d", ".", "p", "n", "g">>), FALSE),
      AgLib("apk", None, None, None, None, None, <<>>, <<>>, <<>>, FALSE,
            None, TRUE),
      AgLib("apk", Some("com.bank.app"), None, Some("1.0"), None,
            Some(<<"android.permission.INTERNET">>),
            <<CertV1>>, <<>>, <<CertV3>>, FALSE,
            Some(<<"r", "e", "s", "/", "m", "i", "p", "m", "a", "p", "/", "c", ".", "p", "n", "g">>), FALSE),
      AgLib("apk", Some("com.bank.app"), Some("Bank"), None, Some("7"),
            Some(<<>>), <<CertV1>>, <<>>, <<>>, TRUE,
            Some(<<"r", "e", "s", "/", "n", "o", "n", "e", ".", "p", "n", "g">>), FALSE) }

\* What the apkutils2 library does on the file: AU_APK is None, a call on it
\* (or a lookup in the manifest it returns) raises, or get_manifest() returns
\* a manifest with the attributes below; uses is the uses-permission list.
AuLib(k, pkg, alabel, label, avname, vname, avcode, vcode, uses, icon, icon_raises) ==
    [kind |-> k, package |-> pkg, android_label |-> alabel, label |-> label,
     android_versionName |-> avname, versionName |-> vname,
     android_versionCode |-> avcode, versionCode |-> vcode, uses |-> uses,
     app_icon |-> icon, app_icon_raises |-> icon_raises]

AuNoApk(k) ==
    AuLib(k, None, None, None, None, None, None, None, <<>>, None, FALSE)

Uses(aname, name) == [android_name |-> aname, name |-> name]

AuLibs ==
    { AuNoApk("unavailable"), AuNoApk("raises"),
      AuLib("apk", Some("com.fake.app"), None, Some("Fake"), Some("2.0"), None,
            None, Some("9"),
            <<Uses(Some("android.permission.CALL_PHONE"), None),
              Uses(None, Some("android.permission.VIBRATE")),
              Uses(None, None)>>,
            Some(<<"r", "e", "s", "/", "m", "i", "p", "m", "a", "p", "/", "a", ".", "p", "n", "g">>), FALSE),
      AuLib("apk", Some("com.fake.app"), None, None, None, None, None, None,
            <<>>, None, TRUE) }

\* The dict both backends return (static_analyzer.py:85-88 and 128-132).
Record(pkg, label, vname, vcode, perms, fp, hint) ==
    [package |-> pkg, label |-> label, version_name |-> vname,
     version_code |-> vcode, permissions |-> perms, cert_fingerprint |-> fp,
     icon_hint |-> hint]

\* `x or y or z` on lists: the first non-empty one, else the last.
FirstNonEmpty(x, y, z) == IF x # <<>> THEN x ELSE IF y # <<>> THEN y ELSE z

\* static_analyzer.py:62-90
_extract_manifest_with_androguard(lib) ==
    IF lib.kind # "apk" THEN None
    ELSE
        LET certs == FirstNonEmpty(lib.certs_v2, lib.certs_v3, lib.certs_v1)
            fp == IF lib.certs_raise \/ certs = <<>> THEN None
                  ELSE Some(sha256_hexdigest(certs[1]))
            icon_hint == IF lib.app_icon_raises THEN None ELSE lib.app_icon
        IN Some(Record(lib.package, lib.app_name, lib.version_name,
                       lib.version_code,
                       IF IsNone(lib.permissions) THEN <<>> ELSE Val(lib.permissions),
                       fp, icon_hint))

\* static_analyzer.py:104-111: the names of the uses-permission entries.
RECURSIVE perm_names(_)
perm_names(uses) ==
    IF uses = <<>> THEN <<>>
    ELSE LET name == Or(Head(uses).android_name, Head(uses).name)
         IN (IF IsNone(name) THEN <<>> ELSE <<Val(name)>>) \o perm_names(Tail(uses))

\* static_analyzer.py:123, on the upper-cased name u.
is_cert_name(u) ==
    /\ StartsWith(u, <<"M", "E", "T", "A", "-", "I", "N", "F", "/">>)
    /\ \/ EndsWith(u, <<".", "R", "S", "A">>)
       \/ EndsWith(u, <<".", "D", "S", "A">>)
       \/ EndsWith(u, <<".", "E", "C">>)

\* static_analyzer.py:117-127: the digest of the first certificate file.
scan_cert_fingerprint(z) ==
    IF ~z.readable THEN None
    ELSE LET hits == {i \in 1..Len(z.entries) : is_cert_name(upper(z.entries[i].name))}
         IN IF hits = {} THEN None
            ELSE LET first == CHOOSE i \in hits : \A j \in hits : i <= j
                 IN Some(sha256_hexdigest(zread(z, z.entries[first].name)))

\* static_analyzer.py:93-134
_extract_manifest_with_apkutils(lib, z) ==
    IF lib.kind # "apk" \/ IsNone(lib.package) THEN None
    ELSE
        LET label == Or(lib.android_label, lib.label)
            version_name == Or(lib.android_versionName, lib.versionName)
            version_code == Or(lib.android_versionCode, lib.versionCode)
            icon_hint == IF lib.app_icon_raises THEN None ELSE lib.app_icon
        IN Some(Record(lib.package, label, version_name, version_code,
                       perm_names(lib.uses), scan_cert_fingerprint(z), icon_hint))

\* dict.get(key, default); the empty dict {} is the empty function.
EmptyDict == <<>>
get(d, key, default) == IF key \in DOMAIN d THEN d[key] ELSE default

\* Variant: extract_meta with the two backends in the other order.
extract_meta_swapped(ag, au, z) ==
    Val(Or(Or(_extract_manifest_with_apkutils(au, z),
              _extract_manifest_with_androguard(ag)), Some(EmptyDict)))

\* static_analyzer.py:138
extract_meta(ag, au, z) ==
    Val(Or(Or(_extract_manifest_with_androguard(ag),
              _extract_manifest_with_apkutils(au, z)), Some(EmptyDict)))

\* static_analyzer.py:45-52
DANGEROUS_PERMS ==
    { "android.permission.READ_SMS", "android.permission.RECEIVE_SMS",
      "android.permission.SEND_SMS", "android.permission.READ_CONTACTS",
      "android.permission.WRITE_CONTACTS", "android.permission.READ_PHONE_STATE",
      "android.permission.CALL_PHONE", "android.permission.PROCESS_OUTGOING_CALLS",
      "android.permission.RECORD_AUDIO", "android.permission.READ_EXTERNAL_STORAGE",
      "android.permission.WRITE_EXTERNAL_STORAGE",
      "android.permission.SYSTEM_ALERT_WINDOW",
      "android.permission.REQUEST_INSTALL_PACKAGES" }

-----------------------------------------------------------------------------
(* Content utilities (utils.py) and the icon fingerprinter (icon_utils.py). *)

\* utils.py:36-44: the content of the first entry whose lower-cased name
\* contains the lower-cased name_contains; None for no match or no archive.
extract_zip_entry_bytes(z, name_contains) ==
    IF ~z.readable THEN None
    ELSE LET hits == {i \in 1..Len(z.entries) :
                         Contains(lower(name_contains), lower(z.entries[i].name))}
         IN IF hits = {} THEN None
            ELSE LET first == CHOOSE i \in hits : \A j \in hits : i <= j
                 IN Some(zread(z, z.entries[first].name))

\* The entropy -sum(p * log2(p)), p = c / length over the byte counts c, is
\* log2(length^length / prod(c^c)) / length.  An entropy value is kept as
\* that exact fraction and the length: [num, den, len] is log2(num/den)/len.
Entropy(n, d, l) == [num |-> n, den |-> d, len |-> l]
EntropyZero == Entropy(1, 1, 1)

RECURSIVE Pow(_, _)
Pow(b, e) == IF e = 0 THEN 1 ELSE b * Pow(b, e - 1)

\* utils.py:24-26: freq[b], the number of occurrences of byte b in data.
freq(data, b) == Cardinality({i \in 1..Len(data) : data[i] = b})

\* prod(c^c) over the non-zero counts c of the byte values in bs.
RECURSIVE CountPowers(_, _)
CountPowers(data, bs) ==
    IF bs = {} THEN 1
    ELSE LET b == CHOOSE x \in bs : TRUE
         IN Pow(freq(data, b), freq(data, b)) * CountPowers(data, bs \ {b})

\* Variant: shannon_entropy with += for the -= of utils.py:32.
shannon_entropy_negated(data) ==
    IF data = <<>> THEN EntropyZero
    ELSE Entropy(CountPowers(data, {data[i] : i \in 1..Len(data)}),
                 Pow(Len(data), Len(data)), Len(data))

\* utils.py:21-33
shannon_entropy(data) ==
    IF data = <<>> THEN EntropyZero
    ELSE Entropy(Pow(Len(data), Len(data)),
                 CountPowers(data, {data[i] : i \in 1..Len(data)}), Len(data))

\* icon_utils.py:16, the filter of the fallback scan on the entry name n.
is_icon_candidate(n) ==
    LET nl == lower(n)
    IN /\ StartsWith(nl, <<"r", "e", "s", "/">>)
       /\ EndsWith(nl, <<".", "p", "n", "g">>) \/ EndsWith(nl, <<".", "w", "e", "b", "p">>)
       /\ Contains(<<"m", "i", "p", "m", "a", "p">>, nl) \/ Contains(<<"d", "r", "a", "w", "a", "b", "l", "e">>, nl)

Area(img) == img.size[1] * img.size[2]

\* The outcome of a call that may raise: the exception raised ("" for
\* none) and the value returned.
Returned(v) == [raised |-> "", value |-> v]
Raised(e) == [raised |-> e, value |-> None]

\* icon_utils.py:7-28; value is the decoded image (the bytes returned with
\* it are not used by the caller).
extract_primary_icon(z, icon_path_hint) ==
    IF ~z.readable THEN Raised("BadZipFile")
    ELSE IF /\ ~IsNone(icon_path_hint) /\ Val(icon_path_hint) # <<>>
            /\ \E i \in 1..Len(z.entries) : z.entries[i].name = Val(icon_path_hint)
    THEN LET img == Image_open(zread(z, Val(icon_path_hint)))
         IN IF IsNone(img) THEN Raised("UnidentifiedImageError") ELSE Returned(img)
    ELSE LET candidates == {i \in 1..Len(z.entries) :
                               /\ is_icon_candidate(z.entries[i].name)
                               /\ ~IsNone(Image_open(z.entries[i].data))}
             area(i) == Area(Val(Image_open(z.entries[i].data)))
         IN IF candidates = {} THEN Returned(None)
            ELSE LET best == CHOOSE i \in candidates : \A j \in candidates :
                                 area(i) > area(j) \/ (area(i) = area(j) /\ i <= j)
                 IN Returned(Image_open(z.entries[best].data))

\* icon_utils.py:31-32
icon_phash(img) == img.phash

HexDigits == <<"0", "1", "2", "3", "4", "5", "6", "7", "8", "9", "a", "b", "c", "d", "e", "f">>

\* int(c, 16) of one hex digit, either case.
HexMap == [c \in {HexDigits[i] : i \in 1..16} \cup {UpperChar(HexDigits[i]) : i \in 1..16} |->
              (CHOOSE i \in 1..16 : HexDigits[i] = LowerChar(c)) - 1]
IsHex(c) == c \in DOMAIN HexMap

\* The four bits of a hex digit's value, most significant first.
NibbleBits == [v \in 0..15 |-> [k \in 1..4 |-> (v \div Pow(2, 4 - k)) % 2]]

\* imagehash.hex_to_hash: the bits of a hex string, four per digit.
hex_to_hash(h) ==
    [k \in 1..(4 * Len(h)) |-> NibbleBits[HexMap[h[((k - 1) \div 4) + 1]]][((k - 1) % 4) + 1]]

\* ImageHash.__sub__: the number of differing bits.
Hamming(b1, b2) == Cardinality({k \in 1..Len(b1) : b1[k] # b2[k]})

\* icon_utils.py:35-42 raises when a hash is no hex string (ValueError in
\* hex_to_hash) or the two hashes differ in size (TypeError in h1 - h2).
similarity_raises(hash1, hash2) ==
    IF hash1 = <<>> \/ hash2 = <<>> THEN ""
    ELSE IF \E i \in 1..Len(hash1) : ~IsHex(hash1[i]) THEN "ValueError"
    ELSE IF \E i \in 1..Len(hash2) : ~IsHex(hash2[i]) THEN "ValueError"
    ELSE IF Len(hash1) # Len(hash2) THEN "TypeError"
    ELSE ""

\* icon_utils.py:35-42, where it does not raise.
similarity_score(hash1, hash2) ==
    IF hash1 = <<>> \/ hash2 = <<>> THEN Zero
    ELSE LET max_bits == 4 * Len(hash1)
             dist == Hamming(hex_to_hash(hash1), hex_to_hash(hash2))
         IN Rat(max_bits - dist, max_bits)

-----------------------------------------------------------------------------
(* The trust source (static_analyzer.py:55-59).                            *)

\* The file at trusted_data_path: absent, not JSON, or a JSON object.
TrustDocs ==
    { EmptyDict,
      [trusted_certs |-> <<<<"B", "2">>>>, trusted_icons |-> <<<<"0", "0", "f", "f">>>>,
       bank_packages |-> <<"com.bank.app">>],
      [trusted_certs |-> <<<<"d", "4">>, <<"C", "3">>>>,
       trusted_icons |-> <<<<"0", "f", "0", "e">>, <<"F", "F", "F", "F">>, <<>>>>],
      [trusted_certs |-> <<<<"a", "1">>>>, trusted_icons |-> <<<<"0", "f", "0", "f">>, <<"z", "z", "0", "0">>>>],
      [trusted_icons |-> <<<<"0", "f">>>>] }

TrustSources ==
    {[kind |-> "missing", doc |-> EmptyDict],
     [kind |-> "malformed", doc |-> EmptyDict]} \cup
    {[kind |-> "json", doc |-> d] : d \in TrustDocs}

\* static_analyzer.py:55-59
_load_trusted_data(src) ==
    IF src.kind = "missing"
    THEN Returned([trusted_certs |-> <<>>, trusted_icons |-> <<>>,
                   bank_packages |-> <<>>])
    ELSE IF src.kind = "malformed" THEN Raised("JSONDecodeError")
    ELSE Returned(src.doc)

-----------------------------------------------------------------------------
(* analyze_apk (static_analyzer.py:137-190).  The fields sha256, suspicious *)
(* and vt of the result are computed by calls that read no other local and *)
(* that no later statement reads; they are left out of the result record.  *)

AnalyzeIdle ==
    /\ pc = "idle" /\ apk = [readable |-> FALSE, entries |-> <<>>]
    /\ ag_lib = AgNoApk("unavailable") /\ au_lib = AuNoApk("unavailable")
    /\ meta = EmptyDict /\ dangerous = {} /\ classes = None
    /\ entropy = EntropyZero /\ icon_img = None /\ icon_hash = None
    /\ trust_src = [kind |-> "missing", doc |-> EmptyDict]
    /\ trusted = EmptyDict /\ cert_match = FALSE /\ icon_sim = Zero
    /\ exc = "" /\ result = None

\* The call analyze_apk(apk_path, trusted_data_path): any file of Archives,
\* and any behaviour of the two libraries on it; on a file that is no zip
\* archive neither library produces an APK object.
AnalyzeInit ==
    /\ pc = "manifest"
    /\ apk \in Archives
    /\ ag_lib \in AgLibs /\ (~apk.readable => ag_lib.kind # "apk")
    /\ au_lib \in AuLibs /\ (~apk.readable => au_lib.kind # "apk")
    /\ meta = EmptyDict /\ dangerous = {} /\ classes = None
    /\ entropy = EntropyZero /\ icon_img = None /\ icon_hash = None
    /\ trust_src = [kind |-> "missing", doc |-> EmptyDict]
    /\ trusted = EmptyDict /\ cert_match = FALSE /\ icon_sim = Zero
    /\ exc = "" /\ result = None

\* static_analyzer.py:138-146
read_manifest ==
    /\ pc = "manifest"
    /\ meta' = extract_meta(ag_lib, au_lib, apk)
    /\ dangerous' = {p \in DANGEROUS_PERMS :
                        \E i \in 1..Len(get(meta', "permissions", <<>>)) :
                            get(meta', "permissions", <<>>)[i] = p}
    /\ pc' = "payload"
    /\ UNCHANGED <<apk, ag_lib, au_lib, classes, entropy, icon_img, icon_hash,
                   trust_src, trusted, cert_match, icon_sim, exc, result,
                   fvars, svars>>

\* static_analyzer.py:149, `shannon_entropy(classes) if classes else 0.0`.
entropy_of(c) ==
    IF ~IsNone(c) /\ Val(c) # <<>> THEN shannon_entropy(Val(c)) ELSE EntropyZero

\* static_analyzer.py:148-149
read_payload ==
    /\ pc = "payload"
    /\ classes' = extract_zip_entry_bytes(apk, <<"c", "l", "a", "s", "s", "e", "s", ".", "d", "e", "x">>)
    /\ entropy' = entropy_of(classes')
    /\ pc' = "icon"
    /\ UNCHANGED <<apk, ag_lib, au_lib, meta, dangerous, icon_img, icon_hash,
                   trust_src, trusted, cert_match, icon_sim, exc, result,
                   fvars, svars>>

\* static_analyzer.py:157-159; an exception of extract_primary_icon ends
\* analyze_apk.
read_icon ==
    /\ pc = "icon"
    /\ LET r == extract_primary_icon(apk, get(meta, "icon_hint", None)) IN
        IF r.raised # ""
        THEN /\ exc' = r.raised /\ pc' = "raised"
             /\ UNCHANGED <<icon_img, icon_hash>>
        ELSE /\ icon_img' = r.value
             /\ icon_hash' = IF IsNone(r.value) THEN None
                             ELSE Some(icon_phash(Val(r.value)))
             /\ pc' = "trusted"
             /\ UNCHANGED exc
    /\ UNCHANGED <<apk, ag_lib, au_lib, meta, dangerous, classes, entropy,
                   trust_src, trusted, cert_match, icon_sim, result,
                   fvars, svars>>

\* static_analyzer.py:165; the file at trusted_data_path is read here.
load_trusted ==
    /\ pc = "trusted"
    /\ \E src \in TrustSources :
        /\ trust_src' = src
        /\ LET r == _load_trusted_data(src) IN
            IF r.raised # ""
            THEN /\ exc' = r.raised /\ pc' = "raised" /\ UNCHANGED trusted
            ELSE /\ trusted' = r.value /\ pc' = "match" /\ UNCHANGED exc
    /\ UNCHANGED <<apk, ag_lib, au_lib, meta, dangerous, classes, entropy,
                   icon_img, icon_hash, cert_match, icon_sim, result,
                   fvars, svars>>

\* Variant: cert_trusted without lower() on the trusted entries.
cert_trusted_exact(cert_fp, certs) ==
    /\ ~IsNone(cert_fp) /\ Val(cert_fp) # <<>>
    /\ \E i \in 1..Len(certs) : certs[i] = lower(Val(cert_fp))

\* static_analyzer.py:167-168
cert_trusted(cert_fp, certs) ==
    LET trusted_certs == {lower(certs[i]) : i \in 1..Len(certs)}
    IN /\ ~IsNone(cert_fp) /\ Val(cert_fp) # <<>>
       /\ lower(Val(cert_fp)) \in trusted_certs

\* Variant: the loop keeping the last score instead of the maximum.
best_similarity_last(h, icons, acc) ==
    IF icons = <<>> THEN acc ELSE similarity_score(h, icons[Len(icons)])

\* static_analyzer.py:172-173: the loop over the trusted icons, from acc.
RECURSIVE best_similarity(_, _, _)
best_similarity(h, icons, acc) ==
    IF icons = <<>> THEN acc
    ELSE best_similarity(h, Tail(icons), RatMax(acc, similarity_score(h, Head(icons))))

\* The exception the loop of static_analyzer.py:172-173 ends with, "" for none.
loop_raises(h, icons) ==
    LET bad == {i \in 1..Len(icons) : similarity_raises(h, icons[i]) # ""}
    IN IF bad = {} THEN ""
       ELSE similarity_raises(h, icons[CHOOSE i \in bad : \A j \in bad : i <= j])

\* static_analyzer.py:166-173
match_trusted ==
    /\ pc = "match"
    /\ cert_match' = cert_trusted(get(meta, "cert_fingerprint", None),
                                  get(trusted, "trusted_certs", <<>>))
    /\ LET icons == get(trusted, "trusted_icons", <<>>)
           e == IF IsNone(icon_hash) THEN "" ELSE loop_raises(Val(icon_hash), icons)
       IN IF e # ""
          THEN /\ exc' = e /\ pc' = "raised" /\ UNCHANGED icon_sim
          ELSE /\ icon_sim' = IF IsNone(icon_hash) THEN Zero
                              ELSE best_similarity(Val(icon_hash), icons, Zero)
               /\ pc' = "return" /\ UNCHANGED exc
    /\ UNCHANGED <<apk, ag_lib, au_lib, meta, dangerous, classes, entropy,
                   icon_img, icon_hash, trust_src, trusted, result, fvars, svars>>

\* static_analyzer.py:175-190
return_result ==
    /\ pc = "return"
    /\ result' = Some([package |-> get(meta, "package", None),
                       app_label |-> get(meta, "label", None),
                       version_name |-> get(meta, "version_name", None),
                       version_code |-> get(meta, "version_code", None),
                       permissions |-> get(meta, "permissions", <<>>),
                       dangerous_permissions |-> dangerous,
                       cert_fingerprint |-> get(meta, "cert_fingerprint", None),
                       cert_trusted_match |-> cert_match,
                       icon_hash |-> icon_hash,
                       icon_similarity_score |-> icon_sim,
                       entropy_classes_dex |-> entropy])
    /\ pc' = "returned"
    /\ UNCHANGED <<apk, ag_lib, au_lib, meta, dangerous, classes, entropy,
                   icon_img, icon_hash, trust_src, trusted, cert_match,
                   icon_sim, exc, fvars, svars>>

-----------------------------------------------------------------------------
(* The specifications.                                                     *)

Init == FuseIdle /\ StringsIdle /\ AnalyzeInit
Next ==
    \/ read_manifest
    \/ read_payload
    \/ read_icon
    \/ load_trusted
    \/ match_trusted
    \/ return_result
Spec == Init /\ [][Next]_vars

FuseSpecInit == FuseInit /\ StringsIdle /\ AnalyzeIdle
FuseNext == combine_ml_vt_mb
FuseSpec == FuseSpecInit /\ [][FuseNext]_vars

StringsSpecInit == FuseIdle /\ StringsInit /\ AnalyzeIdle
StringsNext ==
    \/ scan_printable
    \/ scan_other
    \/ scan_end
StringsSpec == StringsSpecInit /\ [][StringsNext]_vars

-----------------------------------------------------------------------------
(* Properties of analyze_apk, checked under Spec.                          *)

AfterManifest == pc \notin {"idle", "manifest"}

\* Two dicts with the same keys and the same value at each key.
SameDict(x, y) == DOMAIN x = DOMAIN y /\ \A k \in DOMAIN x : x[k] = y[k]

\* C3: the metadata record is the record of the first backend, androguard
\* then apkutils, that returns one; every metadata field of the result is
\* that record's; a backend that is unavailable or raises returns nothing;
\* the record is empty only when both backends returned nothing.
C3_FirstBackendWins ==
    LET a == _extract_manifest_with_androguard(ag_lib)
        u == _extract_manifest_with_apkutils(au_lib, apk)
    IN /\ ag_lib.kind # "apk" => IsNone(a)
       /\ au_lib.kind # "apk" => IsNone(u)
       /\ AfterManifest =>
            /\ ~IsNone(a) => SameDict(meta, Val(a))
            /\ IsNone(a) /\ ~IsNone(u) => SameDict(meta, Val(u))
            /\ (DOMAIN meta = {}) <=> (IsNone(a) /\ IsNone(u))
       /\ pc = "returned" /\ (~IsNone(a) \/ ~IsNone(u)) =>
            LET rec == IF ~IsNone(a) THEN Val(a) ELSE Val(u)
                r == Val(result)
            IN /\ r.package = rec.package
               /\ r.app_label = rec.label
               /\ r.version_name = rec.version_name
               /\ r.version_code = rec.version_code
               /\ r.permissions = rec.permissions
               /\ r.cert_fingerprint = rec.cert_fingerprint
               /\ get(meta, "icon_hint", None) = rec.icon_hint
       /\ pc = "returned" /\ IsNone(a) /\ IsNone(u) =>
            LET r == Val(result)
            IN /\ IsNone(r.package) /\ IsNone(r.app_label)
               /\ IsNone(r.version_name) /\ IsNone(r.version_code)
               /\ r.permissions = <<>> /\ IsNone(r.cert_fingerprint)

C3_Witness ==
    /\ pc = "returned"
    /\ ag_lib.kind = "raises"
    /\ ~IsNone(_extract_manifest_with_apkutils(au_lib, apk))
    /\ Val(result).package = Some("com.fake.app")
    /\ Val(result).app_label = Some("Fake")

\* The trust database the file at trusted_data_path stands for: the
\* document when it is one, nothing otherwise.
TrustDb == IF trust_src.kind = "json" THEN trust_src.doc ELSE EmptyDict
AfterLoad == pc \in {"match", "return", "returned"}

\* C4: loading the trust database never raises: a missing source and an
\* unparsable source both give the empty database, and an unparsable source
\* never makes analyze_apk fail.
C4_TrustLoadNeverRaises ==
    /\ exc # "JSONDecodeError"
    /\ AfterLoad /\ trust_src.kind \in {"missing", "malformed"} =>
        /\ get(trusted, "trusted_certs", <<>>) = <<>>
        /\ get(trusted, "trusted_icons", <<>>) = <<>>

\* C5: in every result, cert_trusted_match is true exactly when a non-empty
\* fingerprint was extracted and its lower-case form is the lower-case form
\* of an entry of the trust database's certificate list.
C5_CertMatchIffTrustedFingerprint ==
    pc = "returned" =>
        LET r == Val(result)
            fp == r.cert_fingerprint
            certs == get(TrustDb, "trusted_certs", <<>>)
        IN /\ r.cert_trusted_match \in BOOLEAN
           /\ IsNone(fp) => r.cert_trusted_match = FALSE
           /\ r.cert_trusted_match <=>
                /\ ~IsNone(fp)
                /\ Val(fp) # <<>>
                /\ \E i \in 1..Len(certs) : lower(certs[i]) = lower(Val(fp))

C5_Witness ==
    /\ pc = "returned"
    /\ Val(result).cert_trusted_match
    /\ LET certs == get(TrustDb, "trusted_certs", <<>>)
       IN /\ \A i \in 1..Len(certs) : certs[i] # Val(Val(result).cert_fingerprint)
          /\ \E i \in 1..Len(certs) : certs[i] = upper(Val(Val(result).cert_fingerprint))

\* An entropy value e against the bounds 0 and 8 bits per byte.
EntropyIsZero(e) == e.num = e.den
EntropyInRange(e) == e.den <= e.num /\ e.num <= e.den * Pow(256, e.len)

NoPayload == IsNone(classes) \/ Val(classes) = <<>>
OneByteValue == ~NoPayload /\ \A i \in 1..Len(Val(classes)) : Val(classes)[i] = Val(classes)[1]

\* C6 as stated: in every result the entropy is in [0, 8], and it is 0
\* exactly when the payload was empty or unavailable.
C6_EntropyZeroIffNoPayload ==
    pc = "returned" =>
        /\ EntropyInRange(Val(result).entropy_classes_dex)
        /\ EntropyIsZero(Val(result).entropy_classes_dex) <=> NoPayload

\* C6 amended: in every result the entropy is in [0, 8], and it is 0 exactly
\* when the payload was empty or unavailable or holds one byte value only.
C6_EntropyZeroIffAtMostOneByteValue ==
    pc = "returned" =>
        /\ EntropyInRange(Val(result).entropy_classes_dex)
        /\ EntropyIsZero(Val(result).entropy_classes_dex) <=> (NoPayload \/ OneByteValue)

C6_Witness ==
    /\ pc = "returned"
    /\ classes = Some(DexUniform)
    /\ EntropyIsZero(Val(result).entropy_classes_dex)

\* C7: analyze_apk on a file that is no zip archive ends with an exception
\* and no result; on every readable archive it returns a result.
C7_OnlyUnreadableArchiveFails ==
    /\ ~apk.readable => (pc # "returned" /\ IsNone(result))
    /\ apk.readable => pc # "raised"

\* C8: an icon that cannot be decoded never ends analyze_apk, whether it was
\* found by the scan or named by the hint; with no icon at all the result
\* has no icon hash and similarity 0.
C8_IconDecodeNeverFatal ==
    /\ exc # "UnidentifiedImageError"
    /\ pc = "returned" /\ IsNone(icon_img) =>
        /\ IsNone(Val(result).icon_hash)
        /\ RatEq(Val(result).icon_similarity_score, Zero)

\* The similarity the claim defines: 1 - (Hamming distance / bit length),
\* and 0 when either hash is empty.
ClaimedSimilarity(h, t) ==
    IF h = <<>> \/ t = <<>> THEN Rat(0, 1)
    ELSE LET bits == 4 * Len(h)
             dist == Hamming(hex_to_hash(h), hex_to_hash(t))
         IN Rat(bits - dist, bits)

\* C9: in every result, icon_similarity_score is the maximum over the trusted
\* icon hashes t of similarity(icon_hash, t): 0 with no icon hash or no
\* trusted icon, 1 when the icon hash is a trusted hash, always in [0, 1].
C9_IconSimilarityIsMaximum ==
    pc = "returned" =>
        LET r == Val(result)
            s == r.icon_similarity_score
            icons == get(TrustDb, "trusted_icons", <<>>)
        IN /\ s.den > 0 /\ 0 <= s.num /\ s.num <= s.den
           /\ IsNone(r.icon_hash) \/ icons = <<>> => s.num = 0
           /\ ~IsNone(r.icon_hash) /\ icons # <<>> =>
                /\ \E i \in 1..Len(icons) :
                        RatEq(s, ClaimedSimilarity(Val(r.icon_hash), icons[i]))
                /\ \A i \in 1..Len(icons) :
                        RatLe(ClaimedSimilarity(Val(r.icon_hash), icons[i]), s)
                /\ (\E i \in 1..Len(icons) : icons[i] = Val(r.icon_hash)) => s.num = s.den

C9_Witness ==
    /\ pc = "returned"
    /\ ~IsNone(Val(result).icon_hash)
    /\ Len(get(TrustDb, "trusted_icons", <<>>)) >= 2
    /\ RatLt(Zero, Val(result).icon_similarity_score)
    /\ RatLt(Val(result).icon_similarity_score, One)

\* C11: when androguard reports certificates under several signature
\* schemes, the fingerprint is the digest of the first certificate of the
\* newest scheme that has one: v3 before v2 before v1.
C11_NewestSchemeFirst ==
    AfterManifest /\ ag_lib.kind = "apk" /\ ~ag_lib.certs_raise =>
        LET newest == IF ag_lib.certs_v3 # <<>> THEN ag_lib.certs_v3
                      ELSE IF ag_lib.certs_v2 # <<>> THEN ag_lib.certs_v2
                      ELSE ag_lib.certs_v1
        IN get(meta, "cert_fingerprint", None) =
                IF newest = <<>> THEN None ELSE Some(sha256_hexdigest(newest[1]))

\* The state after analyze_apk's call of extract_primary_icon on a readable
\* archive (static_analyzer.py:157): the call has returned or raised.
AfterIcon ==
    /\ apk.readable
    /\ pc \in {"trusted", "match", "return", "returned", "raised"}

\* The hint names an entry of the archive.
HintInArchive ==
    LET hint == get(meta, "icon_hint", None)
    IN /\ ~IsNone(hint)
       /\ \E i \in 1..Len(apk.entries) : apk.entries[i].name = Val(hint)

\* The decodable candidates of the archive, by position in enumeration
\* order, and the area of the image at a position.
DecodableCandidates ==
    {i \in 1..Len(apk.entries) :
        /\ is_icon_candidate(apk.entries[i].name)
        /\ ~IsNone(Image_open(apk.entries[i].data))}
AreaAt(i) == Area(Val(Image_open(apk.entries[i].data)))

\* The icon is the largest decodable candidate, the first of those that
\* share the largest area, and no icon when there is no candidate.
LargestFirstCandidate ==
    IF DecodableCandidates = {} THEN IsNone(icon_img)
    ELSE \E i \in DecodableCandidates :
            /\ icon_img = Image_open(apk.entries[i].data)
            /\ \A j \in DecodableCandidates :
                    /\ AreaAt(i) >= AreaAt(j)
                    /\ AreaAt(i) = AreaAt(j) => i <= j

\* C12: extract_primary_icon returns the hinted entry when the hint names an
\* entry of the archive, whatever the areas of the candidates; otherwise it
\* returns the decodable candidate of largest pixel area, the first in
\* enumeration order among those that share it.
C12_IconSelection ==
    AfterIcon =>
        IF HintInArchive
        THEN /\ exc # "UnidentifiedImageError"
             /\ ~IsNone(icon_img)
             /\ icon_img = Image_open(zread(apk, Val(get(meta, "icon_hint", None))))
        ELSE LargestFirstCandidate

-----------------------------------------------------------------------------
(* Properties of combine_ml_vt_mb, checked under FuseSpec.                 *)

Cond1(a) == a.vt_detections > 5 \/ a.mb_detections > 0
Cond2(a) == a.vt_detections = 0 /\ a.mb_detections = 0 /\ a.ml_prob > 70
Cond3(a) == a.vt_detections = 0 /\ a.mb_detections = 0 /\ a.ml_prob < 30

\* C1: the verdict is the first match of: (1) more than 5 detections or a
\* secondary detection: confirmed malicious; (2) no detection at all and
\* ml_prob > 0.7: suspicious; (3) no detection at all and ml_prob < 0.3:
\* likely safe; (4) otherwise potentially risky.  The comparisons are strict:
\* ml_prob of exactly 0.7 or 0.3 with no detection is potentially risky, and
\* exactly 5 detections without a secondary one is not confirmed malicious.
C1_VerdictByFirstMatch ==
    f_pc = "done" =>
        LET a == f_args
            v == f_ret.decision
        IN /\ Cond1(a) => v = "Likely Malware (Confirmed)"
           /\ ~Cond1(a) /\ Cond2(a) => v = "Suspicious (New Malware?)"
           /\ ~Cond1(a) /\ ~Cond2(a) /\ Cond3(a) => v = "Likely Safe"
           /\ ~Cond1(a) /\ ~Cond2(a) /\ ~Cond3(a) => v = "Potentially Risky"
           /\ (a.vt_detections = 0 /\ a.mb_detections = 0 /\ a.ml_prob \in {30, 70})
                  => v = "Potentially Risky"
           /\ (a.vt_detections = 5 /\ a.mb_detections = 0)
                  => v # "Likely Malware (Confirmed)"

C1_Witness ==
    /\ f_pc = "done"
    /\ f_args.ml_prob = 70 /\ f_args.vt_detections = 0 /\ f_args.mb_detections = 0
    /\ f_ret.decision = "Potentially Risky"

\* C2: the score is min(1, 0.7*ml_prob + 0.15*ratio + 0.15*secondarySignal),
\* with ratio = vt_detections/vt_total when vt_total > 0 and 0 otherwise, and
\* secondarySignal = 1 when mb_detections > 0 and 0 otherwise; it lies in
\* [0, 1], also when vt_detections exceeds vt_total.
C2_ScoreFormula ==
    f_pc = "done" =>
        LET a == f_args
            s == f_ret.final_score
            rn == IF a.vt_total > 0 THEN a.vt_detections ELSE 0
            rd == IF a.vt_total > 0 THEN a.vt_total ELSE 1
            sig == IF a.mb_detections > 0 THEN 1 ELSE 0
            \* 0.7*ml/100 + 0.15*rn/rd + 0.15*sig, over the denominator 10000*rd
            en == 70 * a.ml_prob * rd + 1500 * rn + 1500 * sig * rd
            ed == 10000 * rd
            expected == IF en < ed THEN Rat(en, ed) ELSE Rat(ed, ed)
        IN /\ s.den > 0
           /\ s = Norm(expected)
           /\ 0 <= s.num /\ s.num <= s.den

C2_Witness ==
    /\ f_pc = "done"
    /\ f_args.vt_total > 0 /\ f_args.vt_detections > f_args.vt_total
    /\ f_args.ml_prob = 100
    /\ f_ret.final_score = One

-----------------------------------------------------------------------------
(* Properties of extract_all_strings, checked under StringsSpec.           *)

Printable(b) == 32 <= b /\ b <= 126

\* The maximal runs of printable bytes of buf: <<i, j>> with buf[i..j]
\* printable, and neither buf[i-1] nor buf[j+1] a printable byte.
MaximalRuns(buf) ==
    {r \in (1..Len(buf)) \X (1..Len(buf)) :
        /\ r[1] <= r[2]
        /\ \A k \in r[1]..r[2] : Printable(buf[k])
        /\ r[1] = 1 \/ ~Printable(buf[r[1] - 1])
        /\ r[2] = Len(buf) \/ ~Printable(buf[r[2] + 1])}

\* C10: the strings returned are, in buffer order, exactly the maximal runs
\* of bytes in [32, 126] of length >= min_len (the run at the end of the
\* buffer included); none holds another byte, none is shorter than min_len.
C10_ExactlyTheLongMaximalRuns ==
    s_pc = "done" =>
        LET buf == data_or_empty(s_data)
            runs == {r \in MaximalRuns(buf) : r[2] - r[1] + 1 >= s_min_len}
            rank(r) == Cardinality({q \in runs : q[1] < r[1]}) + 1
        IN /\ Len(s_out) = Cardinality(runs)
           /\ \A r \in runs :
                s_out[rank(r)] = [k \in 1..(r[2] - r[1] + 1) |-> chr(buf[r[1] + k - 1])]
           /\ \A k \in 1..Len(s_out) : Len(s_out[k]) >= s_min_len

C10_Witness ==
    /\ s_pc = "done"
    /\ s_data = Some(ExampleBuf) /\ s_min_len = DefaultMinLen
    /\ s_out = <<<<"C", "D", "E", "F", "G">>>>

=============================================================================
